---- MODULE Spec2Model ----
(***************************************************************************)
(* IdentifAI: the web service's ingest endpoint (web_app/app.py,           *)
(* web_app/database.py), its activity feed and dashboard reads, and the    *)
(* capture agent's main loop (raspberry_pi/capture.py).                    *)
(***************************************************************************)
EXTENDS Integers, Sequences, FiniteSets, TLC

\* ------------------------------------------------------------- bounds
MaxReq == 2        \* POST /pi_capture requests the model serves
MaxClock == 1      \* readings of the wall clock the model distinguishes
MaxCalls == 3      \* log_activity calls in a run of the feed alone
MaxCycles == 3     \* capture cycles of the capture agent
MaxOps == 1        \* requests of each other route in a run of the whole service
MaxMtime == 2      \* modification times latest_frame.jpg takes
MaxVersions == 2   \* different contents written to latest_frame.jpg

\* ------------------------------------------------- program constants
MAX_ACTIVITY_ENTRIES == 100   \* activities[:100]
ACTIVITY_READ_LIMIT == 50     \* activities[:50] in activity_log
DASHBOARD_LIMIT == 30         \* get_face_events_with_faces(limit=30)

VARIABLES
  now,        \* the wall clock (datetime.utcnow())
  files,      \* the images root: set of [name, req, bytes]
  rows,       \* the face_events table, in rowid order
  feedFile,   \* data/activity_log.json: [shape, acts]
  req,        \* the POST /pi_capture requests: locals, position, response
  feedObs,    \* GET /activity_log: the last two responses, and the appends so far
  dashObs,    \* GET /dashboard: the last two listings, and the inserts between
  pi,         \* the capture agent: position in main(), camera, frames, posts
  stream      \* GET /video_feed: latest_frame.jpg, the generator's locals, its last yield

vars == <<now, files, rows, feedFile, req, feedObs, dashObs, pi, stream>>

ReqIds == 1..MaxReq

\* ------------------------------------------------------ form coercion
FileFields == {"absent", "noname", "empty", "valid"}
TsFields == {"absent", "T1", "T2", "T3"}   \* "absent": the field is not sent
SourceFields == {"absent", "door_cam"}
FdFields == {"absent", "true", "TRUE", "false"}
FcFields == {"absent", "0", "3", "abc"}

\* request.form.get(key, default)
FormGet(field, default) == IF field = "absent" THEN default ELSE field

\* str.lower()
Lower(s) == IF s = "TRUE" THEN "true" ELSE s

\* int(str): the decimal strings and their values; any other string raises
DecimalValue(s) == CASE s = "0" -> 0 [] s = "3" -> 3
IsDecimal(s) == s \in {"0", "3"}

\* request.form.get('faces_detected', 'false').lower() == 'true'
ParseFacesDetected(fd) == Lower(FormGet(fd, "false")) = "true"

ParseFaceCountClamped(fd, fc) ==
  IF ParseFacesDetected(fd) THEN DecimalValue(FormGet(fc, "0")) ELSE 0
\* int(request.form.get('face_count', '0')); fd is not consulted
ParseFaceCount(fd, fc) == DecimalValue(FormGet(fc, "0"))

\* ------------------------------------------------------ activity feed
Take(s, n) == IF Len(s) <= n THEN s ELSE SubSeq(s, 1, n)

\* _load_activities: a list, a dict with "activities", or [] when the
\* content does not parse
LoadActivities(f) ==
  IF f.shape \in {"list", "dict"} THEN Take(f.acts, MAX_ACTIVITY_ENTRIES) ELSE <<>>

InsertTail(entry, acts) == Take(Append(acts, entry), MAX_ACTIVITY_ENTRIES)
InsertNoCap(entry, acts) == <<entry>> \o acts
\* activities.insert(0, entry); activities = activities[:100]
InsertHead(entry, acts) == Take(<<entry>> \o acts, MAX_ACTIVITY_ENTRIES)

\* json.dump({"activities": activities}, f)
DumpFeed(acts) == [shape |-> "dict", acts |-> acts]

\* open(ACTIVITY_LOG_PATH, 'w') has truncated the file, nothing written yet
TruncatedFeed == [shape |-> "bad", acts |-> <<>>]

\* the entry log_activity builds for the ingest of request r
IngestEntry(r, faces_detected, face_count, source, image_path, t) ==
  [type |-> IF faces_detected THEN "face_detected" ELSE "image_captured",
   description |-> IF faces_detected
                   THEN [text |-> "Face detected: n faces in image",
                         n |-> face_count, s |-> ""]
                   ELSE [text |-> "Image captured from s", n |-> 0, s |-> source],
   tsKind |-> "utcZ", timestamp |-> t, image |-> image_path, id |-> r]

\* an entry an earlier run of the service left in the file (k = 1 the newest)
PriorEntry(k) ==
  [type |-> "snapshot",
   description |-> [text |-> "Snapshot saved: s", n |-> 0, s |-> "snapshot"],
   tsKind |-> "utcZ", timestamp |-> 0, image |-> 0 - k, id |-> 0 - k]
PriorActs(n) == [k \in 1..n |-> PriorEntry(k)]

EntriesOf(r) == Cardinality({i \in 1..Len(feedFile.acts) : feedFile.acts[i].id = r})

\* ------------------------------------------------------ POST /pi_capture
IdleReq ==
  [pc |-> "idle", file |-> "absent", ts |-> "absent", source |-> "absent",
   fd |-> "absent", fc |-> "absent",
   filename |-> 0, readAt |-> 0, acts |-> <<>>, seen |-> {}, entryTs |-> 0,
   status |-> 0, error |-> "", failed |-> "none", atWrite |-> 0]

Respond(q, status, error, failed) ==
  [q EXCEPT !.pc = "done", !.status = status, !.error = error, !.failed = failed]

RowsOf(r) == Cardinality({i \in 1..Len(rows) : rows[i].req = r})
FilesOf(r) == {f \in files : f.req = r}

StoreNothing(fs, name, r, bytes) == fs
\* file.save(filepath): writes (or overwrites) the named file
StoreFile(fs, name, r, bytes) ==
  {f \in fs : f.name # name} \cup {[name |-> name, req |-> r, bytes |-> bytes]}

\* file.filename == '': only the name of the part is looked at
RejectsFile(file) == file = "noname"

\* lines 295-306: the form is coerced before the file is looked for
Validate(file, fc) ==
  IF ~IsDecimal(FormGet(fc, "0")) THEN "exception"
  ELSE IF file = "absent" THEN "No file provided"
  ELSE IF RejectsFile(file) THEN "No file selected"
  ELSE ""

FilenamePerRequest(t, r) == t * (MaxReq + 2) + r
\* lines 309-310: "pi_capture_<ts>.jpg", ts the reading of utcnow() to the
\* microsecond; nothing of the request goes into the name, and no look at
\* the images root
Filename(t, r) == t

\* lines 293-314: read the form, validate, name the file and save it
PiCaptureRecv(r, file, ts, source, fd, fc, saveOk) ==
  /\ req[r].pc = "idle"
  /\ \A q \in ReqIds : q < r => req[q].pc # "idle"
  /\ LET q0 == [req[r] EXCEPT !.file = file, !.ts = ts, !.source = source,
                              !.fd = fd, !.fc = fc]
         v == Validate(file, fc)
     IN IF v = "exception"
        THEN /\ req' = [req EXCEPT ![r] = Respond(q0, 500, "exception", "parse")]
             /\ UNCHANGED files
        ELSE IF v # ""
        THEN /\ req' = [req EXCEPT ![r] = Respond(q0, 400, v, "none")]
             /\ UNCHANGED files
        ELSE IF ~saveOk
        THEN /\ req' = [req EXCEPT ![r] = Respond(q0, 500, "exception", "save")]
             /\ UNCHANGED files
        ELSE /\ files' = StoreFile(files, Filename(now, r), r, file)
             /\ req' = [req EXCEPT ![r] = [q0 EXCEPT !.pc = "saved",
                                                     !.filename = Filename(now, r),
                                                     !.readAt = now]]
  /\ UNCHANGED <<now, rows, feedFile, feedObs, dashObs, pi, stream>>

\* log_face_event: INSERT INTO face_events (...); timestamp is NOT NULL
NewRow(r, q) ==
  [id |-> Len(rows) + 1,
   timestamp |-> q.ts,
   image_path |-> q.filename,
   faces_detected |-> ParseFacesDetected(q.fd),
   face_count |-> ParseFaceCount(q.fd, q.fc),
   source |-> FormGet(q.source, "raspberry_pi"),
   req |-> r]

InsertOrReplaceRow(rs, row) ==
  IF rs = <<>> THEN <<row>> ELSE [rs EXCEPT ![Len(rs)] = row]
\* database.py lines 51-56: one INSERT, committed; the table has no other
\* writer (no UPDATE, no DELETE in database.py)
InsertRow(rs, row) == Append(rs, row)

HandlerRemovesFile(fs, r) == {f \in fs : f.req # r}
\* lines 330-332: the handler logs and answers 500; it removes nothing the
\* request has written
HandlerLeavesFiles(fs, r) == fs

\* lines 316-318, and 330-332 when log_face_event raises
PiCaptureInsert(r, dbOk) ==
  /\ req[r].pc = "saved"
  /\ IF req[r].ts = "absent" \/ ~dbOk
     THEN /\ req' = [req EXCEPT ![r] = Respond(req[r], 500, "exception", "insert")]
          /\ files' = HandlerLeavesFiles(files, r)
          /\ UNCHANGED rows
          /\ UNCHANGED dashObs
     ELSE /\ rows' = InsertRow(rows, NewRow(r, req[r]))
          /\ req' = [req EXCEPT ![r].pc = "inserted"]
          /\ dashObs' = [dashObs EXCEPT !.since = @ \cup {r}]
          /\ UNCHANGED files
  /\ UNCHANGED <<now, feedFile, feedObs, pi, stream>>

\* log_activity, lines 118-127: build the entry, load the stored list
LogActivityLoad(r) ==
  /\ req[r].pc = "inserted"
  /\ req' = [req EXCEPT ![r].pc = "la_loaded",
                        ![r].entryTs = now,
                        ![r].acts = LoadActivities(feedFile),
                        ![r].seen = {q \in ReqIds : EntriesOf(q) > 0}]
  /\ UNCHANGED <<now, files, rows, feedFile, feedObs, dashObs, pi, stream>>

LogActivityRaisesUncaught(openOk) == ~openOk
\* lines 132-133: log_activity catches every exception of its write and
\* logs a warning, so nothing reaches the caller
LogActivityRaises(openOk) == FALSE

ListRereadAtWrite(loaded, f) == LoadActivities(f)
\* line 128: the entry is inserted into the list line 127 loaded; the file
\* is not read again and no lock is held from the load to the write
ListToInsertInto(loaded, f) == loaded

\* log_activity, lines 128-130: insert, cap, open the file for writing
LogActivityOpen(r, openOk) ==
  /\ req[r].pc = "la_loaded"
  /\ IF openOk
     THEN /\ feedFile' = TruncatedFeed
          /\ req' = [req EXCEPT ![r].pc = "la_open",
                                ![r].acts = ListToInsertInto(@, feedFile)]
     ELSE /\ req' = [req EXCEPT ![r] =
                 IF LogActivityRaises(openOk)
                 THEN Respond(req[r], 500, "exception", "activity")
                 ELSE Respond(req[r], 201, "", "activity")]
          /\ UNCHANGED feedFile
  /\ UNCHANGED <<now, files, rows, feedObs, dashObs, pi, stream>>

\* log_activity, line 131, and the response of line 328
LogActivityDump(r) ==
  /\ req[r].pc = "la_open"
  /\ LET q == req[r]
         row == rows[CHOOSE i \in 1..Len(rows) : rows[i].req = r]
         entry == IngestEntry(r, row.faces_detected, row.face_count, row.source,
                              row.image_path, q.entryTs)
         written == InsertHead(entry, q.acts)
     IN /\ feedFile' = DumpFeed(written)
        /\ req' = [req EXCEPT ![r] =
               [Respond(q, 201, "", "none") EXCEPT
                  !.atWrite = Cardinality({i \in 1..Len(written) : written[i].id = r})]]
  /\ UNCHANGED <<now, files, rows, feedObs, dashObs, pi, stream>>

\* the wall clock advances
Tick ==
  /\ now < MaxClock
  /\ now' = now + 1
  /\ UNCHANGED <<files, rows, feedFile, req, feedObs, dashObs, pi, stream>>

\* ------------------------------------------- log_activity, run to the end
\* legacy content: a bare list whose newest entries carry no timestamp or a
\* timestamp without a zone
LegacyEntry(k) ==
  [PriorEntry(k) EXCEPT !.tsKind = IF k = 1 THEN "none"
                                  ELSE IF k = 2 THEN "naive" ELSE "utcZ"]
LegacyActs(n) == [k \in 1..n |-> LegacyEntry(k)]

NoImage == 0 - 1

\* the callers' arguments: (activity_type, image)
ActivityCalls == {<<"snapshot", 7>>, <<"recording_start", NoImage>>}

\* log_activity, lines 117-133, with no other writer at work: build the
\* entry, load, insert at the head, cap, write; a failed write is swallowed
LogActivityCall(type, image, openOk) ==
  /\ LET entry == [type |-> type,
                   description |-> [text |-> type, n |-> 0, s |-> ""],
                   tsKind |-> "utcZ", timestamp |-> now, image |-> image,
                   id |-> feedObs.calls + 1]
     IN IF openOk
        THEN /\ feedFile' = DumpFeed(InsertHead(entry, LoadActivities(feedFile)))
             /\ feedObs' = [feedObs EXCEPT !.calls = @ + 1, !.wrote = TRUE,
                                           !.appends = @ + 1,
                                           !.history = <<entry>> \o @]
        ELSE /\ UNCHANGED feedFile
             /\ feedObs' = [feedObs EXCEPT !.calls = @ + 1]

\* a caller of log_activity that does nothing else
LogActivity(type, image, openOk) ==
  /\ feedObs.calls < MaxCalls
  /\ LogActivityCall(type, image, openOk)
  /\ UNCHANGED <<now, files, rows, req, dashObs, pi, stream>>

\* the name of a snapshot file: "snapshot-<ts>.jpg", apart from every
\* "pi_capture_<ts>.jpg"
SnapshotName(t) == 0 - (t + 1)

\* POST /save_snapshot, lines 263-287: write the file, then log_activity;
\* what the write raises is answered 500
SaveSnapshot(saveOk, openOk) ==
  /\ feedObs.calls < MaxCalls
  /\ IF saveOk
     THEN /\ files' = StoreFile(files, SnapshotName(now), 0, "valid")
          /\ LogActivityCall("snapshot", SnapshotName(now), openOk)
     ELSE /\ feedObs' = [feedObs EXCEPT !.calls = @ + 1]
          /\ UNCHANGED <<files, feedFile>>
  /\ UNCHANGED <<now, rows, req, dashObs, pi, stream>>

\* POST /start_recording, lines 356-359: answers 200, touches nothing
StartRecording == UNCHANGED vars

\* POST /stop_recording, lines 361-364: answers 200, touches nothing
StopRecording == UNCHANGED vars

\* ------------------------------------------------------ GET /activity_log
\* seconds since the epoch of the clock's reading i: each reading is far
\* enough from the one before to change the unit of "time ago"
ClockSeconds(i) == IF i = 0 THEN 0 ELSE 30 * (60 ^ (i - 1))

NoTimeAgo == [n |-> 0, unit |-> ""]

\* _compute_time_ago, lines 95-114: an aware timestamp parses and is
\* subtracted from the aware now; a naive one raises TypeError there, and
\* any exception gives ""
ComputeTimeAgo(tsKind, ts, t) ==
  IF tsKind # "utcZ" THEN NoTimeAgo
  ELSE LET d == ClockSeconds(t) - ClockSeconds(ts)
           secs == IF d < 0 THEN 0 ELSE d
           mins == secs \div 60
           hours == mins \div 60
           days == hours \div 24
       IN IF secs < 60 THEN [n |-> secs, unit |-> "s"]
          ELSE IF mins < 60 THEN [n |-> mins, unit |-> "m"]
          ELSE IF hours < 24 THEN [n |-> hours, unit |-> "h"]
          ELSE [n |-> days, unit |-> "d"]

EnrichStampedNow(act, t) ==
  [type |-> act.type, description |-> act.description, image |-> act.image,
   id |-> act.id, tsKind |-> act.tsKind, timestamp |-> t,
   time_ago |-> ComputeTimeAgo("utcZ", t, t)]
\* lines 343-345: ts is the stored timestamp, or the time of the read when
\* the entry stores none; {**act, "time_ago": ..., "timestamp": ts}
Enrich(act, t) ==
  LET ts == IF act.tsKind = "none" THEN t ELSE act.timestamp
      kind == IF act.tsKind = "none" THEN "utcZ" ELSE act.tsKind
  IN [type |-> act.type, description |-> act.description, image |-> act.image,
      id |-> act.id, tsKind |-> act.tsKind, timestamp |-> ts,
      time_ago |-> ComputeTimeAgo(kind, ts, t)]

\* lines 335-352
ActivityLogResponse(f, t) ==
  LET acts == Take(LoadActivities(f), ACTIVITY_READ_LIMIT)
  IN [i \in 1..Len(acts) |-> Enrich(acts[i], t)]

ActivityLogRead ==
  /\ feedObs' = [feedObs EXCEPT !.prev = feedObs.view,
                                !.view = ActivityLogResponse(feedFile, now),
                                !.reads = IF @ < 2 THEN @ + 1 ELSE @,
                                !.clean = ~feedObs.wrote,
                                !.wrote = FALSE]
  /\ UNCHANGED <<now, files, rows, feedFile, req, dashObs, pi, stream>>

\* ---------------------------------------------------------- GET /dashboard
\* SQLite compares the TEXT timestamps byte by byte; the rank is that order
TsRank(t) == CASE t = "T1" -> 1 [] t = "T2" -> 2 [] t = "T3" -> 3 [] t = "T9" -> 9

\* rows an earlier run of the service left in the table: all with faces
PriorRow(i) ==
  [id |-> i,
   timestamp |-> IF i <= DASHBOARD_LIMIT - 2 THEN "T9" ELSE "T2",
   image_path |-> 0 - i, faces_detected |-> TRUE, face_count |-> 1,
   source |-> "raspberry_pi", req |-> 0]
PriorRows == [i \in 1..DASHBOARD_LIMIT |-> PriorRow(i)]

RECURSIVE KSubsets(_, _)
KSubsets(S, k) ==
  IF k = 0 THEN {{}}
  ELSE UNION {{T \cup {x} : T \in KSubsets({y \in S : y > x}, k - 1)} : x \in S}

TopAnyOrder(rs, limit) == {{i \in 1..Len(rs) : rs[i].faces_detected /\ i <= limit}}
\* SELECT * FROM face_events WHERE faces_detected = 1
\*   ORDER BY timestamp DESC LIMIT ?
\* as the sets of rows it can return: which of the rows that tie at the cut
\* are returned is not specified
SelectWithFaces(rs, limit) ==
  LET F == {i \in 1..Len(rs) : rs[i].faces_detected}
      rk(i) == TsRank(rs[i].timestamp)
      Above(c) == {i \in F : rk(i) > c}
      AtLeast(c) == {i \in F : rk(i) >= c}
  IN IF Cardinality(F) <= limit THEN {F}
     ELSE LET c == CHOOSE c \in {rk(i) : i \in F} :
                     Cardinality(Above(c)) < limit /\ limit <= Cardinality(AtLeast(c))
              tie == AtLeast(c) \ Above(c)
              k == limit - Cardinality(Above(c))
          IN {Above(c) \cup (tie \ T) : T \in KSubsets(tie, Cardinality(tie) - k)}

\* lines 150-168: the listed event of a row
Event(row) ==
  [id |-> row.id, file |-> row.image_path, timestamp |-> row.timestamp,
   face_count |-> row.face_count, source |-> row.source]

RECURSIVE SumFacesOfFaceRows(_)
SumFacesOfFaceRows(rs) ==
  IF rs = <<>> THEN 0
  ELSE (IF Head(rs).faces_detected THEN Head(rs).face_count ELSE 0)
       + SumFacesOfFaceRows(Tail(rs))
\* COALESCE(SUM(face_count), 0) FROM face_events
RECURSIVE SumFaceCount(_)
SumFaceCount(rs) ==
  IF rs = <<>> THEN 0 ELSE Head(rs).face_count + SumFaceCount(Tail(rs))

\* the dict of lines 105-110
DefaultStats == [total_events |-> 0, face_events |-> 0, total_faces |-> 0]

\* get_face_detection_stats, database.py lines 81-110: the three aggregates
\* of one query, or the default dict when the query raises (SUM raises on
\* integer overflow; the database can be locked or unreadable)
GetFaceDetectionStats(rs, queryOk) ==
  IF queryOk
  THEN [total_events |-> Len(rs),
        face_events |-> Cardinality({i \in 1..Len(rs) : rs[i].faces_detected}),
        total_faces |-> SumFaceCount(rs)]
  ELSE DefaultStats

\* lines 140-179
DashboardRead(statsOk) ==
  /\ \E L \in SelectWithFaces(rows, DASHBOARD_LIMIT) :
       dashObs' = [dashObs EXCEPT !.prev = dashObs.view,
                                  !.view = {Event(rows[i]) : i \in L},
                                  !.stats = GetFaceDetectionStats(rows, statsOk),
                                  !.statsOk = statsOk,
                                  !.reads = IF @ < 2 THEN @ + 1 ELSE @,
                                  !.between = dashObs.since,
                                  !.settled = \A r \in dashObs.since :
                                                 req[r].status = 201,
                                  !.since = {}]
  /\ UNCHANGED <<now, files, rows, feedFile, req, feedObs, pi, stream>>

\* ------------------------------------------- the capture agent, capture.py
\* capture_image returns None when the capture failed
NoFrame == 0

CameraKinds == {"real", "mock"}
FaceCounts == {0, 1, 2}
PostOutcomes == {"201", "500", "timeout"}

\* setup_camera, lines 46-68: a MockCamera in demo mode, when picamera2 did
\* not import, or when Picamera2() or configure() raised; else the Picamera2
SetupCamera(demo, available, initOk) ==
  IF demo \/ ~available \/ ~initOk THEN "mock" ELSE "real"

\* why setup_camera returned what it returned
DeviceFound(demo, available, initOk) ==
  IF demo THEN "demo"
  ELSE IF ~available THEN "no_module"
  ELSE IF ~initOk THEN "init_failed" ELSE "ok"

\* lines 164-169, with the configuration the process runs under:
\* DEMO_MODE and ENABLE_FACE_DETECTION of config.py
PiSetup(demo, available, initOk, enabled) ==
  /\ pi.pc = "main"
  /\ SetupCamera(demo, available, initOk) \in CameraKinds
  /\ pi' = [pi EXCEPT !.pc = "created",
                      !.camera = SetupCamera(demo, available, initOk),
                      !.device = DeviceFound(demo, available, initOk),
                      !.detection = enabled]
  /\ UNCHANGED <<now, files, rows, feedFile, req, feedObs, dashObs, stream>>

\* lines 171-173, and 192-197 when start() raises: the handler returns for
\* a MockCamera and re-raises for the real camera
PiStart(ok) ==
  /\ pi.pc = "created"
  /\ ok \/ pi.camera = "real"
  /\ pi' = IF ok
           THEN [pi EXCEPT !.pc = "capture", !.open = TRUE, !.cycle = 1]
           ELSE [pi EXCEPT !.pc = "exited", !.exit = "raised"]
  /\ UNCHANGED <<now, files, rows, feedFile, req, feedObs, dashObs, stream>>

\* lines 82-91: after a failed capture a real camera is stopped and started
\* again; what stop() or start() raises is caught and logged (line 90), and
\* the camera is then left as the failure left it
RestartCamera(p, restartOk) ==
  IF p.camera = "real"
  THEN [p EXCEPT !.stops = @ + 1, !.open = restartOk,
                 !.failedRestarts = IF restartOk THEN @ ELSE @ + 1]
  ELSE p

\* capture_image, lines 70-92: the frame file of this cycle, or None after
\* a capture that raised
PiCapture(ok, restartOk) ==
  /\ pi.pc = "capture"
  /\ (ok \/ pi.camera # "real") => restartOk
  /\ pi' = IF ok
           THEN [pi EXCEPT !.pc = "loop", !.image_path = pi.cycle,
                           !.frames = @ \cup {pi.cycle}]
           ELSE [RestartCamera(pi, restartOk) EXCEPT
                   !.pc = "loop", !.image_path = NoFrame,
                   !.failedCaptures = @ + 1]
  /\ UNCHANGED <<now, files, rows, feedFile, req, feedObs, dashObs, stream>>

PostsWithRetry(outcome) == IF outcome = "201" THEN 1 ELSE 2
PostsAgainAfterTimeout(outcome) == IF outcome = "timeout" THEN 2 ELSE 1
\* line 110: one requests.post per call of send_to_backend, whatever it
\* answers
PostsPerSend(outcome) == 1

\* send_to_backend, lines 94-120: has_faces and, when it found a face,
\* get_face_count (each a run of the detector; ENABLE_FACE_DETECTION is
\* not read), open the frame file, post it; every exception ends the call
SendToBackend(p, d1, d2, outcome) ==
  IF p.image_path \in p.frames
  THEN [p EXCEPT !.sends = @ + PostsPerSend(outcome),
                 !.posted = @ + PostsPerSend(outcome),
                 !.lastPost = [frame |-> p.image_path,
                               faces_detected |-> IF d1 > 0 THEN "true" ELSE "false",
                               face_count |-> IF d1 > 0 THEN d2 ELSE 0,
                               detector_runs |-> IF d1 > 0 THEN 2 ELSE 1,
                               outcome |-> outcome]]
  ELSE p

SendsWhateverCaptureReturned(image_path) == TRUE
\* line 180: if image_path
ShouldSend(image_path) == image_path # NoFrame

\* lines 180-182
PiSend(d1, d2, outcome) ==
  /\ pi.pc = "loop"
  /\ pi.camera = "mock" => d1 = 0 /\ d2 = 0
  /\ ~ShouldSend(pi.image_path) => d1 = 0 /\ d2 = 0 /\ outcome = "201"
  /\ pi' = IF ShouldSend(pi.image_path)
           THEN [SendToBackend(pi, d1, d2, outcome) EXCEPT
                   !.pc = "sleep", !.sendCalls = @ + 1]
           ELSE [pi EXCEPT !.pc = "sleep"]
  /\ UNCHANGED <<now, files, rows, feedFile, req, feedObs, dashObs, stream>>

\* line 185 and the next turn of while True
PiSleep ==
  /\ pi.pc = "sleep"
  /\ pi.cycle < MaxCycles
  /\ pi' = [pi EXCEPT !.pc = "capture", !.cycle = @ + 1, !.sends = 0,
                      !.sendCalls = 0, !.image_path = NoFrame]
  /\ UNCHANGED <<now, files, rows, feedFile, req, feedObs, dashObs, stream>>

\* the statements of main() that the inner try (lines 176-190) encloses
InInnerTry(pc) == pc \in {"capture", "loop", "sleep"}

\* SIGINT: KeyboardInterrupt is raised at the statement main() is at. The
\* inner try catches it (line 187); before it, at camera.start(), only
\* "except Exception" (line 192) is around, which does not catch it
PiInterrupt ==
  /\ ~pi.interrupted
  /\ pi.pc \in {"created", "capture", "loop", "sleep"}
  /\ pi' = IF InInnerTry(pi.pc)
           THEN [pi EXCEPT !.interrupted = TRUE, !.pc = "finally"]
           ELSE [pi EXCEPT !.interrupted = TRUE, !.pc = "exited",
                           !.exit = "KeyboardInterrupt"]
  /\ UNCHANGED <<now, files, rows, feedFile, req, feedObs, dashObs, stream>>

\* lines 189-190: finally: camera.stop(); what stop() raises goes to the
\* handler of lines 192-197
PiFinally(ok) ==
  /\ pi.pc = "finally"
  /\ ok \/ pi.camera = "real"
  /\ pi' = [pi EXCEPT !.pc = "exited", !.open = FALSE,
                      !.stops = @ + 1,
                      !.stopsAfterInt = IF pi.interrupted THEN @ + 1 ELSE @,
                      !.exit = IF ok THEN "returned" ELSE "raised"]
  /\ UNCHANGED <<now, files, rows, feedFile, req, feedObs, dashObs, stream>>

\* ------------------------------------------- the face detector, cv_model.py
\* what a call finds at the standard cascade paths: no file, a file that
\* loads as an empty classifier, a file on which CascadeClassifier raises,
\* a file that loads
CascadeFiles == {"missing", "corrupt", "raises", "good"}
\* download_cascade_file: None, or a local file that loads empty or loads
Downloads == {"fail", "corrupt", "good"}
\* cv2.imread gives None or an image
Images == {"unreadable", "readable"}

\* init_face_detector, lines 61-93, on the global face_cascade ("None",
\* "empty": a classifier object that is empty(), or "loaded"): the global
\* is assigned before empty() is looked at (lines 69, 83), and a global
\* that is not None is returned as it is
InitFaceDetector(fc, std, dl) ==
  IF fc # "None" THEN [cascade |-> fc, exc |-> "none"]
  ELSE IF std = "good" THEN [cascade |-> "loaded", exc |-> "none"]
  ELSE IF dl = "good" THEN [cascade |-> "loaded", exc |-> "none"]
  ELSE IF dl = "corrupt" THEN [cascade |-> "empty", exc |-> "FileNotFoundError"]
  ELSE [cascade |-> IF std = "corrupt" THEN "empty" ELSE "None",
        exc |-> "FileNotFoundError"]

\* detect_faces, lines 108-131: the body of the try; n is the number of
\* regions detectMultiScale finds in a readable image
DetectFacesTry(fc, std, dl, image, n) ==
  LET i == InitFaceDetector(fc, std, dl)
  IN IF i.exc # "none" THEN [cascade |-> i.cascade, exc |-> i.exc, faces |-> 0]
     ELSE IF image = "unreadable"
     THEN [cascade |-> i.cascade, exc |-> "none", faces |-> 0]
     ELSE IF i.cascade = "empty"
     THEN [cascade |-> i.cascade, exc |-> "cv2.error", faces |-> 0]
     ELSE [cascade |-> i.cascade, exc |-> "none", faces |-> n]

CaughtOnlyCvError(exc) == exc = "cv2.error"
\* line 133: except Exception, which FileNotFoundError and cv2.error are
CaughtByDetectFaces(exc) == TRUE

\* detect_faces, lines 95-135, then len(faces) as has_faces and
\* get_face_count take it (lines 147-148, 160-161)
DetectFaces(image, std, dl, n) ==
  /\ pi.detector.calls < MaxCalls
  /\ LET t == DetectFacesTry(pi.detector.face_cascade, std, dl, image, n)
         raised == t.exc # "none" /\ ~CaughtByDetectFaces(t.exc)
         faces == IF t.exc # "none" THEN 0 ELSE t.faces
     IN pi' = [pi EXCEPT !.detector =
                 [face_cascade |-> t.cascade,
                  calls |-> pi.detector.calls + 1,
                  failedInits |-> @.failedInits
                                  + (IF t.exc = "FileNotFoundError" THEN 1 ELSE 0),
                  image |-> image, std |-> std, dl |-> dl,
                  exc |-> t.exc, raised |-> raised,
                  has_faces |-> faces > 0, face_count |-> faces]]
  /\ UNCHANGED <<now, files, rows, feedFile, req, feedObs, dashObs, stream>>

\* ------------------------------------------------------ GET /video_feed
SANITY_BYTES == 100   \* len(frame) > 100

\* bytes: those of latest_frame.jpg after one of its writes, those of the
\* placeholder JPEG (CAMERA_WIDTH x CAMERA_HEIGHT, longer than the sanity
\* length), or Python's None
None == [kind |-> "None", ver |-> 0, len |-> 0]
Placeholder == [kind |-> "placeholder", ver |-> 0, len |-> SANITY_BYTES + 1]
Lengths == {0, SANITY_BYTES, SANITY_BYTES + 1}
FileContents == [kind : {"file"}, ver : 1..MaxVersions, len : Lengths]

\* lines 188-190, before the first next() of the generator
StreamIdle ==
  [open |-> FALSE, exists |-> FALSE, content |-> None, mtime |-> 1,
   last_mtime |-> 0, last_frame |-> None, placeholder_sent |-> FALSE,
   prev_frame |-> None, emitted |-> None, did |-> "start", reads |-> {}]

\* whoever produces latest_frame.jpg (nothing in web_app writes it) writes
\* or rewrites it: any content, finished or not, the modification time the
\* same or later
FrameWrite(c, m) ==
  /\ m \in {stream.mtime, stream.mtime + 1} /\ m <= MaxMtime
  /\ stream' = [stream EXCEPT !.exists = TRUE, !.content = c, !.mtime = m]
  /\ UNCHANGED <<now, files, rows, feedFile, req, feedObs, dashObs, pi>>

FrameDelete ==
  /\ stream.exists
  /\ stream' = [stream EXCEPT !.exists = FALSE, !.content = None]
  /\ UNCHANGED <<now, files, rows, feedFile, req, feedObs, dashObs, pi>>

\* video_feed, lines 256-260: the response iterates a new generator
VideoFeed ==
  /\ ~stream.open
  /\ stream' = [stream EXCEPT !.open = TRUE]
  /\ UNCHANGED <<now, files, rows, feedFile, req, feedObs, dashObs, pi>>

AtLeastSanityBytes(frame) == frame.len >= SANITY_BYTES
\* line 204: if len(frame) > 100
IsValidFrame(frame) == frame.len > SANITY_BYTES

\* lines 210 and 245: if last_frame: yield ...; None and b'' yield nothing
Yield(last_frame) ==
  IF last_frame # None /\ last_frame.len > 0 THEN last_frame ELSE None

\* does this turn of the loop open and read the file (lines 195-200)
ReadsFile(s) == s.exists /\ (s.mtime # s.last_mtime \/ s.last_frame = None)
\* does this turn of the loop build the placeholder (lines 195, 217)
BuildsPlaceholder(s) ==
  ~s.exists /\ (~s.placeholder_sent \/ s.last_frame = None)

\* lines 213-215: except (IOError, OSError): pass -- nothing is yielded;
\* lines 252-254: except Exception: log, sleep -- nothing is yielded
Skipped(s, how) == [s EXCEPT !.did = how, !.emitted = None]

\* one turn of while True, lines 192-254. io: "ok", or which call raised
\* OSError ("getmtime", "read"); phOk: the placeholder was built without
\* an exception
GenerateFramesTurn(s0, io, phOk) ==
  LET s == [s0 EXCEPT !.prev_frame = s0.last_frame] IN
  IF s.exists
  THEN IF io = "getmtime" THEN Skipped(s, "ioerror")
       ELSE IF ReadsFile(s)
       THEN IF io = "read" THEN Skipped(s, "ioerror")
            ELSE LET frame == s.content
                     t == IF IsValidFrame(frame)
                          THEN [s EXCEPT !.last_frame = frame,
                                         !.last_mtime = s.mtime,
                                         !.placeholder_sent = FALSE]
                          ELSE s
                 IN [t EXCEPT !.reads = @ \cup {frame},
                              !.did = IF IsValidFrame(frame)
                                      THEN "read" ELSE "short",
                              !.emitted = Yield(t.last_frame)]
       ELSE [s EXCEPT !.did = "unchanged", !.emitted = Yield(s.last_frame)]
  ELSE IF BuildsPlaceholder(s)
       THEN IF phOk
            THEN [s EXCEPT !.last_frame = Placeholder,
                           !.placeholder_sent = TRUE,
                           !.did = "placeholder", !.emitted = Placeholder]
            ELSE Skipped(s, "error")
       ELSE [s EXCEPT !.did = "missing", !.emitted = Yield(s.last_frame)]

IoOutcomes == {"ok", "getmtime", "read"}

\* generate_frames, lines 186-254: the next turn of the loop
GenerateFrames(io, phOk) ==
  /\ stream.open
  /\ io = "getmtime" => stream.exists
  /\ io = "read" => ReadsFile(stream)
  /\ ~phOk => BuildsPlaceholder(stream)
  /\ stream' = GenerateFramesTurn(stream, io, phOk)
  /\ UNCHANGED <<now, files, rows, feedFile, req, feedObs, dashObs, pi>>

Busy == \E r \in ReqIds : req[r].pc \notin {"idle", "done"}

InitFeedObs(f) ==
  [view |-> <<>>, prev |-> <<>>, reads |-> 0, wrote |-> FALSE, clean |-> FALSE,
   calls |-> 0, appends |-> 0,
   history |-> IF f.shape \in {"list", "dict"} THEN f.acts ELSE <<>>]
InitDashObs ==
  [view |-> {}, prev |-> {}, reads |-> 0, since |-> {}, between |-> {},
   settled |-> FALSE, stats |-> DefaultStats, statsOk |-> TRUE]

PiIdle ==
  [pc |-> "main", camera |-> "none", device |-> "", detection |-> TRUE,
   open |-> FALSE, cycle |-> 0,
   image_path |-> NoFrame, frames |-> {}, sends |-> 0, posted |-> 0,
   sendCalls |-> 0, failedCaptures |-> 0, failedRestarts |-> 0,
   lastPost |-> [frame |-> NoFrame, faces_detected |-> "false", face_count |-> 0,
                 detector_runs |-> 0, outcome |-> "none"],
   interrupted |-> FALSE, stops |-> 0, stopsAfterInt |-> 0, exit |-> "",
   detector |-> [face_cascade |-> "None", calls |-> 0, failedInits |-> 0,
                 image |-> "", std |-> "", dl |-> "",
                 exc |-> "none", raised |-> FALSE,
                 has_faces |-> FALSE, face_count |-> 0]]

\* a fresh installation: no image, no row, the feed file as lines 49-51
\* create it
InitEmpty ==
  /\ now = 0
  /\ files = {}
  /\ rows = <<>>
  /\ feedFile = DumpFeed(<<>>)
  /\ req = [r \in ReqIds |-> IdleReq]
  /\ feedObs = InitFeedObs(feedFile)
  /\ dashObs = InitDashObs
  /\ pi = PiIdle
  /\ stream = StreamIdle

\* the feed file holds what an earlier run appended, one entry short of the
\* cap: the first append fills it, every later one evicts the oldest entry
Init ==
  /\ now = 0
  /\ files = {}
  /\ rows = <<>>
  /\ feedFile = DumpFeed(PriorActs(MAX_ACTIVITY_ENTRIES - 1))
  /\ req = [r \in ReqIds |-> IdleReq]
  /\ feedObs = InitFeedObs(feedFile)
  /\ dashObs = InitDashObs
  /\ pi = PiIdle
  /\ stream = StreamIdle

\* What the capture agent's send_to_backend posts (capture.py lines 101-110).
AgentShaped(q) ==
  /\ q.file = "valid" /\ q.ts = "T1" /\ q.source = "raspberry_pi"
  /\ <<q.fd, q.fc>> \in {<<"true", "3">>, <<"false", "0">>}

\* Requests served one at a time: the capture agent's posts and, among them,
\* one request of any shape a client can send.
NextIngest ==
  \/ /\ ~Busy
     /\ \E r \in ReqIds :
          /\ req[r].pc = "idle"
          /\ \/ \E fd \in {"true", "false"}, saveOk \in BOOLEAN :
                  PiCaptureRecv(r, "valid", "T1", "raspberry_pi", fd,
                                IF fd = "true" THEN "3" ELSE "0", saveOk)
             \/ /\ \A q \in ReqIds : req[q].pc = "idle" \/ AgentShaped(req[q])
                /\ \E file \in FileFields, ts \in {"absent", "T1"},
                      source \in SourceFields, fd \in FdFields, fc \in FcFields,
                      saveOk \in BOOLEAN :
                      PiCaptureRecv(r, file, ts, source, fd, fc, saveOk)
  \/ \E r \in ReqIds, dbOk \in BOOLEAN : PiCaptureInsert(r, dbOk)
  \/ \E r \in ReqIds : LogActivityLoad(r)
  \/ \E r \in ReqIds, openOk \in BOOLEAN : LogActivityOpen(r, openOk)
  \/ \E r \in ReqIds : LogActivityDump(r)
  \/ ~Busy /\ Tick

SpecIngest == InitEmpty /\ [][NextIngest]_vars

\* Requests served by concurrent threads (app.run(threaded=True)), all of
\* them reading the same value of the clock: the posts of the capture
\* agent, either outcome of the detector.
Next ==
  \/ \E r \in ReqIds, fd \in {"true", "false"} :
        PiCaptureRecv(r, "valid", "T1", "raspberry_pi", fd, "3", TRUE)
  \/ \E r \in ReqIds, dbOk \in BOOLEAN : PiCaptureInsert(r, dbOk)
  \/ \E r \in ReqIds : LogActivityLoad(r)
  \/ \E r \in ReqIds, openOk \in BOOLEAN : LogActivityOpen(r, openOk)
  \/ \E r \in ReqIds : LogActivityDump(r)

Spec == Init /\ [][Next]_vars

\* The same concurrent requests on a fresh installation, with the clock
\* advancing between any two steps or not.
NextRace ==
  \/ Next
  \/ Tick

SpecRace == InitEmpty /\ [][NextRace]_vars

\* The activity feed alone: calls of log_activity one after another, reads of
\* /activity_log, the clock. The file is what an earlier run left: the
\* wrapped object, the legacy bare list, or content that does not parse.
InitFeed ==
  /\ now = 0
  /\ files = {}
  /\ rows = <<>>
  /\ feedFile \in
       {DumpFeed(PriorActs(n)) : n \in {0, MAX_ACTIVITY_ENTRIES - 1, MAX_ACTIVITY_ENTRIES}}
       \cup {[shape |-> "list", acts |-> LegacyActs(n)] :
               n \in {2, MAX_ACTIVITY_ENTRIES + 1}}
       \cup {TruncatedFeed}
  /\ req = [r \in ReqIds |-> IdleReq]
  /\ feedObs = InitFeedObs(feedFile)
  /\ dashObs = InitDashObs
  /\ pi = PiIdle
  /\ stream = StreamIdle

NextFeed ==
  \/ \E c \in ActivityCalls, openOk \in BOOLEAN : LogActivity(c[1], c[2], openOk)
  \/ ActivityLogRead
  \/ Tick

SpecFeed == InitFeed /\ [][NextFeed]_vars

\* The event log and the dashboard: posts served one at a time, reads of
\* /dashboard, over an empty table or one an earlier run filled.
InitDash ==
  /\ now = 0
  /\ files = {}
  /\ rows \in {<<>>, PriorRows}
  /\ feedFile = DumpFeed(<<>>)
  /\ req = [r \in ReqIds |-> IdleReq]
  /\ feedObs = InitFeedObs(feedFile)
  /\ dashObs = InitDashObs
  /\ pi = PiIdle
  /\ stream = StreamIdle

\* what the client of the dashboard scenario posts
DashPosts == {<<"true", "3">>, <<"true", "0">>, <<"false", "3">>}

NextDash ==
  \/ /\ ~Busy
     /\ \E r \in ReqIds, ts \in TsFields \ {"absent"}, p \in DashPosts :
           PiCaptureRecv(r, "valid", ts, "absent", p[1], p[2], TRUE)
  \/ \E r \in ReqIds : PiCaptureInsert(r, TRUE)
  \/ \E r \in ReqIds : LogActivityLoad(r)
  \/ \E r \in ReqIds : LogActivityOpen(r, TRUE)
  \/ \E r \in ReqIds : LogActivityDump(r)
  \/ ~Busy /\ \E statsOk \in BOOLEAN : DashboardRead(statsOk)

SpecDash == InitDash /\ [][NextDash]_vars

\* Every operation of the web service, one request at a time, over a table
\* an earlier run filled.
InitService ==
  /\ now = 0
  /\ files = {}
  /\ rows = PriorRows
  /\ feedFile = DumpFeed(<<>>)
  /\ req = [r \in ReqIds |-> IdleReq]
  /\ feedObs = InitFeedObs(feedFile)
  /\ dashObs = InitDashObs
  /\ pi = PiIdle
  /\ stream = StreamIdle

NextService ==
  \/ /\ ~Busy
     /\ \E r \in ReqIds, fd \in {"true", "false"} :
           PiCaptureRecv(r, "valid", "T1", "raspberry_pi", fd, "3", TRUE)
  \/ \E r \in ReqIds, dbOk \in BOOLEAN : PiCaptureInsert(r, dbOk)
  \/ \E r \in ReqIds : LogActivityLoad(r)
  \/ \E r \in ReqIds : LogActivityOpen(r, TRUE)
  \/ \E r \in ReqIds : LogActivityDump(r)
  \/ ~Busy /\ dashObs.reads < MaxOps /\ DashboardRead(TRUE)
  \/ ~Busy /\ feedObs.reads < MaxOps /\ ActivityLogRead
  \/ ~Busy /\ feedObs.calls < MaxOps /\ \E saveOk \in BOOLEAN : SaveSnapshot(saveOk, TRUE)
  \/ StartRecording
  \/ StopRecording

SpecService == InitService /\ [][NextService]_vars

\* The capture agent's process, from the call of main() to its exit.
NextPi ==
  \/ \E demo, available, initOk, enabled \in BOOLEAN :
        PiSetup(demo, available, initOk, enabled)
  \/ \E ok \in BOOLEAN : PiStart(ok)
  \/ \E ok, restartOk \in BOOLEAN : PiCapture(ok, restartOk)
  \/ \E d1, d2 \in FaceCounts, outcome \in PostOutcomes : PiSend(d1, d2, outcome)
  \/ PiSleep
  \/ PiInterrupt
  \/ \E ok \in BOOLEAN : PiFinally(ok)

InitPi == InitEmpty

SpecPi == InitPi /\ [][NextPi]_vars

\* The face detector alone: calls of detect_faces one after another in one
\* process, each finding the cascade files and the image as they then are.
InitDetect == InitEmpty

NextDetect ==
  \E image \in Images, std \in CascadeFiles, dl \in Downloads, n \in FaceCounts :
    DetectFaces(image, std, dl, n)

SpecDetect == InitDetect /\ [][NextDetect]_vars

\* The live stream alone: one client of /video_feed, and the producer of
\* latest_frame.jpg writing, rewriting and removing the file between the
\* turns of the generator.
InitStream == InitEmpty

NextStream ==
  \/ VideoFeed
  \/ \E io \in IoOutcomes, phOk \in BOOLEAN : GenerateFrames(io, phOk)
  \/ \E c \in FileContents, m \in 1..MaxMtime : FrameWrite(c, m)
  \/ FrameDelete

SpecStream == InitStream /\ [][NextStream]_vars

\* =================================================================== claims
Done(r) == req[r].pc = "done"
Created(r) == req[r].status = 201

\* C1 (as stated): a request whose image payload is empty or absent gets a
\* client error (4xx) and leaves neither a face_events row nor a file.
C1_EmptyOrAbsentPayloadRejected ==
  \A r \in ReqIds :
    (Done(r) /\ req[r].file \in {"absent", "noname", "empty"})
      => /\ req[r].status \in 400..499
         /\ RowsOf(r) = 0
         /\ FilesOf(r) = {}

\* C2 (as stated): a request answered 201 has added exactly one row to
\* face_events and exactly one entry to the activity feed.
C2_OneRowOneEntry ==
  \A r \in ReqIds : Created(r) => RowsOf(r) = 1 /\ EntriesOf(r) = 1

\* C2 (amended): a request answered 201 has added exactly one row to
\* face_events; the feed file it wrote held exactly one entry of it, and the
\* feed holds at most one entry of it afterwards: none when its write failed
\* (which log_activity swallows), possibly none when another request
\* rewrote the file.
C2_OneRowAtMostOneEntry ==
  \A r \in ReqIds :
    Created(r) =>
      /\ RowsOf(r) = 1
      /\ EntriesOf(r) <= 1
      /\ req[r].failed = "none" => req[r].atWrite = 1
      /\ req[r].failed = "activity" => EntriesOf(r) = 0

\* C2 witness: two requests answered 201, both wrote the feed, and the feed
\* holds the entry of only one of them.
C2_Witness ==
  \E r1, r2 \in ReqIds :
    /\ r1 # r2 /\ Created(r1) /\ Created(r2)
    /\ req[r1].failed = "none" /\ req[r2].failed = "none"
    /\ RowsOf(r1) = 1 /\ RowsOf(r2) = 1
    /\ EntriesOf(r1) = 0 /\ EntriesOf(r2) = 1

\* C3 (as stated): a row whose faces_detected is false has face_count 0.
C3_NoFacesMeansZeroCount ==
  \A i \in 1..Len(rows) : ~rows[i].faces_detected => rows[i].face_count = 0

\* C3 (amended): a row stores the two fields as the form coerces them, each
\* on its own: face_count is the integer of the face_count field (0 when the
\* field is missing) and faces_detected is whether the lower-cased field is
\* "true"; so face_count is 0 next to a false faces_detected only when the
\* client sent 0 or no count.
C3_RowStoresFieldsAsSent ==
  \A i \in 1..Len(rows) :
    LET q == req[rows[i].req]
    IN /\ rows[i].face_count = 0 <=> q.fc \in {"absent", "0"}
       /\ rows[i].face_count = 3 <=> q.fc = "3"
       /\ rows[i].faces_detected <=> q.fd \in {"true", "TRUE"}

\* C3 witness: a successful ingest stored face_count 3 with faces_detected
\* false.
C3_Witness ==
  \E i \in 1..Len(rows) :
    /\ ~rows[i].faces_detected /\ rows[i].face_count = 3
    /\ Created(rows[i].req)

\* C5 (as stated): a request with no file field is answered 400, whatever
\* its other fields, and adds no row.
C5_NoFileField400 ==
  \A r \in ReqIds :
    (Done(r) /\ req[r].file = "absent") => req[r].status = 400 /\ RowsOf(r) = 0

C4_OneSendPerCapturedFrame ==
  /\ pi.sends <= 1
  /\ pi.pc = "capture" => pi.sends = 0
  /\ (pi.pc = "sleep" /\ pi.image_path # NoFrame)
       => pi.sends = 1 /\ pi.lastPost.frame = pi.image_path
  /\ (pi.pc = "sleep" /\ pi.image_path = NoFrame) => pi.sends = 0

\* C4 witness: the second cycle captured a frame, the post of it failed,
\* and the cycle ended with that one post.
C4_Witness ==
  /\ pi.pc = "sleep" /\ pi.cycle = 2 /\ pi.image_path = 2
  /\ pi.sends = 1 /\ pi.lastPost.outcome = "timeout"

\* C7: once log_activity has appended and more entries than the cap have
\* been appended in all, the feed holds exactly the cap of entries: the most
\* recently appended ones, newest first.
C7_FeedKeepsNewestCap ==
  (feedObs.appends >= 1 /\ Len(feedObs.history) > MAX_ACTIVITY_ENTRIES)
    => /\ feedFile.shape = "dict"
       /\ Len(feedFile.acts) = MAX_ACTIVITY_ENTRIES
       /\ feedFile.acts = SubSeq(feedObs.history, 1, MAX_ACTIVITY_ENTRIES)

\* C7 witness: two appends onto a full feed; the feed is still at the cap
\* with the two new entries at its head, newest first.
C7_Witness ==
  /\ feedObs.appends = 2
  /\ Len(feedObs.history) = MAX_ACTIVITY_ENTRIES + 2
  /\ Len(feedFile.acts) = MAX_ACTIVITY_ENTRIES
  /\ feedFile.acts[1].id > feedFile.acts[2].id /\ feedFile.acts[2].id >= 1
  /\ feedFile.acts[3].id < 0

\* C8 (as stated): two successive reads of /activity_log with no write
\* between them return the same list, field for field.
C8_RereadIdentical ==
  (feedObs.reads = 2 /\ feedObs.clean) => feedObs.view = feedObs.prev

NoStamp == 0 - 1
\* what a response shows of the stored entries: every field but time_ago,
\* and the timestamp only where the entry stores one
StoredFields(view) ==
  [i \in 1..Len(view) |->
     [type |-> view[i].type, description |-> view[i].description,
      image |-> view[i].image, id |-> view[i].id,
      timestamp |-> IF view[i].tsKind = "none" THEN NoStamp ELSE view[i].timestamp]]

\* C8 (amended): two successive reads with no write between them return the
\* same entries in the same order with the same stored fields (type,
\* description, image, and the timestamp where the entry stores one);
\* time_ago, and the timestamp given to an entry that stores none, are
\* computed from the clock at each read and change when the clock advances.
C8_RereadSameStoredFields ==
  (feedObs.reads = 2 /\ feedObs.clean)
    => StoredFields(feedObs.view) = StoredFields(feedObs.prev)

\* C8 witness: two reads with no write between them whose responses differ
\* in time_ago only.
C8_Witness ==
  /\ feedObs.reads = 2 /\ feedObs.clean
  /\ Len(feedObs.view) > 0
  /\ feedObs.view # feedObs.prev
  /\ feedObs.view[1].time_ago # feedObs.prev[1].time_ago
  /\ feedObs.appends >= 1

\* the post the last two reads of /dashboard enclose: one request, answered
\* 201 before the second read, that sent faces_detected = true
EnclosedPost(r) ==
  /\ dashObs.reads = 2 /\ dashObs.between = {r} /\ dashObs.settled
  /\ req[r].status = 201 /\ ParseFacesDetected(req[r].fd)
RowIdOf(r) == CHOOSE i \in 1..Len(rows) : rows[i].req = r
NewlyListed == {e \in dashObs.view : \A o \in dashObs.prev : o.id # e.id}

C10_StopBeforeExit ==
  (pi.pc = "exited" /\ pi.interrupted) => pi.stopsAfterInt >= 1

\* C11 (as stated): no condition of the capture device ends the process:
\* the agent leaves main() only after an interrupt, and whenever the device
\* was not usable it is in the capture loop with the mock camera.
C11_DeviceFailureNeverFatal ==
  /\ pi.pc = "exited" => pi.interrupted
  /\ (InInnerTry(pi.pc) /\ pi.device # "ok") => pi.camera = "mock"

\* C13 (as stated): with ENABLE_FACE_DETECTION false, a frame is posted
\* without a run of the detector, with faces_detected false and face_count 0.
C13_DisabledDetectionSendsZero ==
  (pi.lastPost.frame # NoFrame /\ ~pi.detection)
    => /\ pi.lastPost.detector_runs = 0
       /\ pi.lastPost.faces_detected = "false"
       /\ pi.lastPost.face_count = 0

\* C12: a request whose row insert failed after its file was written is
\* answered 500 with an error message, has no row, and the file it wrote is
\* still under the images root.
C12_InsertFailureKeepsFile ==
  \A r \in ReqIds :
    (Done(r) /\ req[r].failed = "insert")
      => /\ req[r].status = 500 /\ req[r].error # ""
         /\ RowsOf(r) = 0
         /\ \E f \in files : f.name = req[r].filename

\* C12 witness: the insert of a request that sent a timestamp failed in the
\* database; its file is stored and no row names it.
C12_Witness ==
  \E r \in ReqIds :
    /\ Done(r) /\ req[r].failed = "insert" /\ req[r].ts # "absent"
    /\ req[r].status = 500
    /\ FilesOf(r) # {}
    /\ \A i \in 1..Len(rows) : rows[i].image_path # req[r].filename

\* C14: no step of the web service (pi_capture, dashboard, activity_log,
\* save_snapshot, start_recording, stop_recording) removes or changes a row
\* of face_events: the table after the step begins with the table before it.
C14_RowsOnlyGrow ==
  [][/\ Len(rows') >= Len(rows)
     /\ SubSeq(rows', 1, Len(rows)) = rows]_vars

\* C14 witness: after an ingest, a snapshot and reads of /dashboard and
\* /activity_log, the rows an earlier run left are all there, as they were,
\* before the new row.
C14_Witness ==
  /\ Len(rows) > DASHBOARD_LIMIT
  /\ SubSeq(rows, 1, DASHBOARD_LIMIT) = PriorRows
  /\ dashObs.reads >= 1 /\ feedObs.reads >= 1 /\ feedObs.appends >= 1
  /\ \E r \in ReqIds : Created(r)

\* the sum of face_count over the first n rows of the table
RECURSIVE FaceCountUpTo(_)
FaceCountUpTo(n) == IF n = 0 THEN 0 ELSE rows[n].face_count + FaceCountUpTo(n - 1)

\* the statistics the last read of /dashboard showed are those of the table
StatsAreOfRows ==
  /\ dashObs.stats.total_events = Len(rows)
  /\ dashObs.stats.face_events
       = Cardinality({i \in 1..Len(rows) : rows[i].faces_detected})
  /\ dashObs.stats.total_faces = FaceCountUpTo(Len(rows))
  /\ dashObs.stats.face_events <= dashObs.stats.total_events

\* no row has been inserted since the last read of /dashboard
StatsRead == dashObs.reads >= 1 /\ dashObs.since = {}

\* C15 (as stated): after any ingests, get_face_detection_stats returns the
\* number of rows, the number of rows with faces_detected true and the sum
\* of face_count over the rows.
C15_StatsMatchRows == StatsRead => StatsAreOfRows

\* C15 (amended): get_face_detection_stats returns those three aggregates
\* when its query succeeds; when the query raises it returns zero for all
\* three, whatever the table holds. Either way face_events <= total_events.
C15_StatsMatchRowsWhenQuerySucceeds ==
  StatsRead =>
    /\ dashObs.statsOk => StatsAreOfRows
    /\ ~dashObs.statsOk => dashObs.stats = DefaultStats
    /\ dashObs.stats.face_events <= dashObs.stats.total_events

\* C15 witness: over 30 earlier rows, an ingest with faces_detected false
\* and face_count 3 was answered 201; the statistics read next count 31
\* events, 30 of them with faces, and 33 faces.
C15_Witness ==
  /\ StatsRead /\ dashObs.statsOk
  /\ Len(rows) = DASHBOARD_LIMIT + 1
  /\ ~rows[Len(rows)].faces_detected /\ rows[Len(rows)].face_count = 3
  /\ Created(rows[Len(rows)].req)
  /\ dashObs.stats.total_events = DASHBOARD_LIMIT + 1
  /\ dashObs.stats.face_events = DASHBOARD_LIMIT
  /\ dashObs.stats.total_faces = DASHBOARD_LIMIT + 3

\* C16: a call of detect_faces does not raise, and it returns no region
\* (has_faces false, get_face_count 0) when the image is unreadable or the
\* cascade is not loaded, on the first call and on every call after an
\* initialization that failed.
C16_DetectorNeverRaises ==
  pi.detector.calls >= 1 =>
    /\ ~pi.detector.raised
    /\ (pi.detector.image = "unreadable" \/ pi.detector.face_cascade # "loaded")
         => ~pi.detector.has_faces /\ pi.detector.face_count = 0
    /\ pi.detector.has_faces <=> pi.detector.face_count > 0

\* C16 witness: the first call failed to initialize and left an empty
\* classifier behind; a later call, on a readable image and with a good
\* cascade file in place, got that classifier, failed inside
\* detectMultiScale and returned no region.
C16_Witness ==
  /\ pi.detector.calls >= 2 /\ pi.detector.failedInits >= 1
  /\ pi.detector.std = "good"
  /\ pi.detector.image = "readable" /\ pi.detector.exc = "cv2.error"
  /\ ~pi.detector.raised /\ pi.detector.face_count = 0

\* both requests were answered after writing the feed, and neither had the
\* other's entry in the list it loaded
WroteUnseen(r1, r2) ==
  /\ r1 # r2
  /\ Done(r1) /\ Created(r1) /\ req[r1].failed = "none"
  /\ Done(r2) /\ Created(r2) /\ req[r2].failed = "none"
  /\ r1 \notin req[r2].seen /\ r2 \notin req[r1].seen

\* C17: log_activity writes the list it loaded with its entry at the head,
\* whatever was written in between: the stored feed is the last writer's
\* list, and of two requests that each loaded the feed before the other
\* wrote, the feed holds the entry of at most one once both have returned.
C17_ConcurrentWritersLoseUpdates ==
  /\ (feedFile.shape = "dict" /\ Len(feedFile.acts) > 0
        /\ feedFile.acts[1].id \in ReqIds)
       => feedFile.acts
            = Take(<<feedFile.acts[1]>> \o req[feedFile.acts[1].id].acts,
                   MAX_ACTIVITY_ENTRIES)
  /\ \A r1, r2 \in ReqIds :
       (WroteUnseen(r1, r2) /\ feedFile.shape = "dict")
         => EntriesOf(r1) + EntriesOf(r2) <= 1

\* C17 witness: two concurrent calls loaded the same feed, both wrote and
\* returned, and the stored feed holds one of their two entries.
C17_Witness ==
  \E r1, r2 \in ReqIds :
    /\ WroteUnseen(r1, r2)
    /\ feedFile.shape = "dict"
    /\ EntriesOf(r1) + EntriesOf(r2) = 1
    /\ feedFile.acts[1].id = r1

\* C18: within one request the file is written, then the row inserted,
\* then the activity entry appended: the step that inserts the row of a
\* request finds the file that request wrote under the row's image_path,
\* and the step of the request that stores its activity entry finds its row.
C18_FileThenRowThenEntry ==
  [][\A r \in ReqIds :
       /\ Cardinality({i \in 1..Len(rows') : rows'[i].req = r}) > RowsOf(r)
            => /\ \E f \in files : f.req = r /\ f.name = rows'[Len(rows')].image_path
               /\ rows'[Len(rows')].req = r
               /\ EntriesOf(r) = 0
       /\ (req'[r] # req[r]
            /\ Cardinality({i \in 1..Len(feedFile'.acts) : feedFile'.acts[i].id = r})
                 > EntriesOf(r))
            => /\ RowsOf(r) = 1
               /\ FilesOf(r) # {}]_vars

\* C18 witness: a request between its second and third step: its file is
\* written, its row is inserted, its activity entry is not yet in the feed.
C18_Witness ==
  \E r \in ReqIds :
    /\ req[r].pc = "inserted"
    /\ \E f \in FilesOf(r) : f.name = req[r].filename
    /\ RowsOf(r) = 1 /\ EntriesOf(r) = 0

\* the request has written its file
Stored(r) == req[r].pc \in {"saved", "inserted", "la_loaded", "la_open"}
             \/ (Done(r) /\ req[r].failed \in {"insert", "activity"})
             \/ Created(r)

\* C19 (as stated): every ingest stores its image under a name no stored
\* file has: no image is overwritten and no two rows share an image_path.
C19_FreshFilenames ==
  /\ \A r \in ReqIds : Stored(r) => \E f \in FilesOf(r) : f.name = req[r].filename
  /\ \A i, j \in 1..Len(rows) : i # j => rows[i].image_path # rows[j].image_path

\* C19 (amended): the name is the clock reading of the request and nothing
\* else: two requests get different names exactly when they read different
\* values of the clock. The images root holds one file for each value read,
\* the one saved last by the requests that read it, and two rows share the
\* image_path exactly when their requests read the same value.
C19_NamesDifferWithTheClock ==
  /\ \A r1, r2 \in ReqIds :
       (r1 # r2 /\ Stored(r1) /\ Stored(r2))
         => (req[r1].filename = req[r2].filename <=> req[r1].readAt = req[r2].readAt)
  /\ \A r \in ReqIds :
       Stored(r) => \E f \in files : /\ f.name = req[r].filename
                                     /\ req[f.req].readAt = req[r].readAt
  /\ Cardinality(files) = Cardinality({req[r].readAt : r \in {q \in ReqIds : Stored(q)}})
  /\ \A i, j \in 1..Len(rows) :
       rows[i].image_path = rows[j].image_path
         <=> req[rows[i].req].readAt = req[rows[j].req].readAt

\* C19 witness: two concurrent requests read the same clock value; both
\* were answered 201, one file is stored under the shared name, and both
\* rows point at it.
C19_Witness ==
  \E r1, r2 \in ReqIds :
    /\ r1 # r2 /\ Created(r1) /\ Created(r2)
    /\ req[r1].filename = req[r2].filename
    /\ FilesOf(r1) = {} /\ FilesOf(r2) # {}
    /\ \E i, j \in 1..Len(rows) :
         i # j /\ rows[i].image_path = rows[j].image_path

\* C20: a frame is posted at most once, by the cycle that captured it,
\* whatever the post answered; a failed post does not end the loop.
C20_FailedSendNotRetried ==
  /\ pi.posted <= Cardinality(pi.frames)
  /\ pi.lastPost.frame # NoFrame
       => pi.lastPost.frame \in pi.frames /\ pi.lastPost.frame <= pi.cycle
  /\ pi.sends >= 1 => pi.sends = 1 /\ pi.lastPost.frame = pi.cycle
  /\ (pi.posted >= 1 /\ ~pi.interrupted) => InInnerTry(pi.pc)
  /\ (pi.pc = "sleep" /\ pi.cycle < MaxCycles) => ENABLED PiSleep

\* C20 witness: the post of the first cycle's frame was answered 500; the
\* second cycle has captured its own frame and the first has not been
\* posted again.
C20_Witness ==
  /\ pi.pc = "loop" /\ pi.cycle = 2 /\ pi.image_path = 2
  /\ pi.lastPost.frame = 1 /\ pi.lastPost.outcome = "500"
  /\ pi.posted = 1 /\ pi.sends = 0

\* C21: a cycle whose capture failed has no frame (image_path is None),
\* calls send_to_backend not at all and posts nothing, and goes on to the
\* sleep and the next cycle; neither a failed capture nor a failed restart
\* of the camera takes main() out of its loop.
C21_FailedCaptureSkipsSendAndContinues ==
  /\ (pi.pc \in {"loop", "sleep"} /\ pi.cycle \notin pi.frames)
       => /\ pi.image_path = NoFrame
          /\ pi.sendCalls = 0 /\ pi.sends = 0
          /\ pi.lastPost.frame # pi.cycle
  /\ pi.posted <= Cardinality(pi.frames)
  /\ pi.failedRestarts <= pi.failedCaptures
  /\ InInnerTry(pi.pc)
       => pi.failedCaptures + Cardinality(pi.frames)
            = (IF pi.pc = "capture" THEN pi.cycle - 1 ELSE pi.cycle)
  /\ (pi.failedCaptures >= 1 /\ ~pi.interrupted) => InInnerTry(pi.pc)
  /\ (pi.pc = "loop" /\ pi.image_path = NoFrame)
       => ENABLED PiSend(0, 0, "201")
  /\ (pi.pc = "sleep" /\ pi.cycle < MaxCycles) => ENABLED PiSleep

\* C21 witness: the first cycle's capture failed and so did the restart of
\* the camera; nothing was sent, and the loop is at the capture of the
\* second cycle.
C21_Witness ==
  /\ pi.pc = "capture" /\ pi.cycle = 2
  /\ pi.failedCaptures = 1 /\ pi.failedRestarts = 1
  /\ pi.frames = {} /\ pi.posted = 0 /\ pi.lastPost.frame = NoFrame

\* C22 (as stated): in every posted request faces_detected is 'true'
\* exactly when face_count is greater than 0.
C22_FacesDetectedIffPositiveCount ==
  pi.lastPost.frame # NoFrame
    => (pi.lastPost.faces_detected = "true" <=> pi.lastPost.face_count > 0)

\* what the generator may hold or yield: nothing, the placeholder, or
\* bytes that a read of latest_frame.jpg returned and that are longer than
\* the sanity length
PlaceholderOrValidRead(frame) ==
  \/ frame = None
  \/ frame = Placeholder
  \/ frame.kind = "file" /\ frame \in stream.reads /\ frame.len > SANITY_BYTES

\* C23 (as stated): every emitted frame is the placeholder or a read of
\* more than 100 bytes, and a turn that finds the file but reads too little
\* or fails to read it emits the last valid frame.
C23_ShortOrFailedReadEmitsLastFrame ==
  /\ PlaceholderOrValidRead(stream.emitted)
  /\ (stream.did \in {"short", "ioerror"} /\ stream.prev_frame.kind = "file")
       => stream.emitted = stream.prev_frame

\* C23 (amended): every emitted frame is the placeholder or a read of more
\* than 100 bytes. A turn that reads too little keeps last_frame and emits
\* it (a valid frame or the placeholder; nothing when there is none yet). A
\* turn in which getmtime or the read raises emits nothing and keeps
\* last_frame for the turns after it; so does a turn in which building the
\* placeholder raises.
C23_EmitsPlaceholderOrValidRead ==
  /\ PlaceholderOrValidRead(stream.emitted)
  /\ PlaceholderOrValidRead(stream.last_frame)
  /\ stream.did \in {"short", "unchanged", "missing"}
       => /\ stream.last_frame = stream.prev_frame
          /\ stream.emitted = stream.prev_frame
  /\ stream.did \in {"ioerror", "error"}
       => /\ stream.last_frame = stream.prev_frame
          /\ stream.emitted = None
  /\ stream.did \in {"read", "placeholder"}
       => stream.emitted = stream.last_frame /\ stream.emitted # None

\* C23 witness: a valid frame was being served, the file is there, and the
\* turn just taken failed to read it: it emitted nothing and still holds
\* the frame.
C23_Witness ==
  /\ stream.exists /\ stream.did = "ioerror"
  /\ stream.prev_frame.kind = "file"
  /\ stream.last_frame = stream.prev_frame
  /\ stream.emitted = None

====
